---- MODULE Spec2Model ----
(***************************************************************************)
(* A model of the podcast generator (src/app.py).  The program is a        *)
(* Streamlit script: every user interaction re-runs main() from the top    *)
(* against st.session_state.  One action of the model is one such run: the *)
(* sidebar navigation, then the step function of the current step with the *)
(* widget that triggered the run.  An exception that main() does not catch *)
(* ends the run and keeps the session-state writes made before it.         *)
(*                                                                         *)
(* Not modelled: st.session_state.api_key and config['voice_settings']     *)
(* (passed through unchanged to the remote service), and the "Play ...     *)
(* Voice Sample" buttons (they write nothing to the session).              *)
(***************************************************************************)
EXTENDS Integers, Sequences, FiniteSets, TLC

VARIABLES
    current_step,      \* st.session_state.current_step
    script,            \* st.session_state.script: a list of dicts
    config,            \* st.session_state.config
    audio_segments,    \* st.session_state.audio_segments: list of (label, audio)
    available_voices,  \* st.session_state.available_voices: name -> voice_id
    podcast_file,      \* the file generated_podcast.mp3
    exported,          \* the JSON text behind the last "Download JSON" link
    ev                 \* what the last run did (observation only)

vars == <<current_step, script, config, audio_segments, available_voices,
          podcast_file, exported, ev>>

----------------------------------------------------------------------------
(* Bounds of the model.                                                    *)

\* Longest script the user pastes or uploads.
MaxLines == 2

----------------------------------------------------------------------------
(* Values.  A JSON scalar is a string of the model; the members of         *)
(* NonStrings stand for JSON values that are not strings (the number 1).   *)

NONE == "<None>"          \* Python's None
NonStrings == {"#1"}

\* str(value), the cast the text widgets apply to their initial value.
Str(v) == IF v = "#1" THEN "1" ELSE v

\* Python truthiness of a str.
Truthy(s) == s # ""

\* f"Line {i+1}" for the 0-based index i, and its inverse
\* int(label.split()[1]) - 1.
LineLabels == <<"Line 1", "Line 2", "Line 3", "Line 4", "Line 5", "Line 6">>
LineLabel(i) == LineLabels[i + 1]
LineIndex(label) == (CHOOSE n \in 1..Len(LineLabels) : LineLabels[n] = label) - 1

SeqsUpTo(S, n) == UNION {[1..m -> S] : m \in 0..n}

----------------------------------------------------------------------------
(* JSON text.  A document is invalid text, a value that is not a list, or  *)
(* a list of items; an item is an object, written as its sequence of       *)
(* <<key, value>> members in text order (a key may repeat), or some other  *)
(* value.                                                                  *)

InvalidDoc == [kind |-> "invalid", items |-> <<>>]
ObjectDoc  == [kind |-> "object", items |-> <<>>]
ListDoc(items) == [kind |-> "list", items |-> items]

ObjItem(pairs) == [isdict |-> TRUE, pairs |-> pairs]
ScalarItem     == [isdict |-> FALSE, pairs |-> <<>>]

\* The dict json.loads builds from an object: the last member of a key wins.
DictOf(pairs) ==
    [k \in {pairs[i][1] : i \in 1..Len(pairs)} |->
        pairs[CHOOSE i \in 1..Len(pairs) :
                 /\ pairs[i][1] = k
                 /\ \A j \in (i+1)..Len(pairs) : pairs[j][1] # k][2]]

\* json.loads / json.load: raises JSONDecodeError on invalid text; a list
\* becomes a list of Python values, an object a dict.
JsonLoads(doc) ==
    [raises |-> doc.kind = "invalid",
     islist |-> doc.kind = "list",
     value  |-> [i \in 1..Len(doc.items) |->
                   [isdict |-> doc.items[i].isdict,
                    dict   |-> DictOf(doc.items[i].pairs)]]]

\* The members json.dumps writes for a dict, one per key.  (A dict keeps
\* insertion order; dict equality ignores it, and so does the model.)
KeyOrder == <<"speaker", "text", "note">>
RECURSIVE MembersFrom(_, _)
MembersFrom(d, n) ==
    IF n > Len(KeyOrder) THEN <<>>
    ELSE (IF KeyOrder[n] \in DOMAIN d THEN << <<KeyOrder[n], d[KeyOrder[n]]>> >>
          ELSE <<>>) \o MembersFrom(d, n + 1)

\* Faulty variant of JsonDumps: only the members speaker and text are written.
JsonDumpsTwoFields(s) ==
    ListDoc([i \in 1..Len(s) |->
        ObjItem(<< <<"speaker", s[i]["speaker"]>>, <<"text", s[i]["text"]>> >>)])

\* json.dumps(st.session_state.script, indent=2)
JsonDumps(s) == ListDoc([i \in 1..Len(s) |-> ObjItem(MembersFrom(s[i], 1))])

\* isinstance(x, list) and all(isinstance(item, dict) and 'speaker' in item
\* and 'text' in item for item in x)
ValidScript(loaded) ==
    /\ loaded.islist
    /\ \A i \in 1..Len(loaded.value) :
          /\ loaded.value[i].isdict
          /\ "speaker" \in DOMAIN loaded.value[i].dict
          /\ "text" \in DOMAIN loaded.value[i].dict

\* The list stored in st.session_state.script.
ScriptOf(loaded) == [i \in 1..Len(loaded.value) |-> loaded.value[i].dict]

----------------------------------------------------------------------------
(* The remote services.                                                    *)

EmptyDict == [k \in {} |-> ""]

\* Faulty variant of get_available_voices: the first voice of a name is kept and
\* the voices of a failed request are returned.
GetVoicesFirstWins(response) ==
    [n \in {response.voices[i].name : i \in 1..Len(response.voices)} |->
        response.voices[CHOOSE i \in 1..Len(response.voices) :
            /\ response.voices[i].name = n
            /\ \A j \in 1..(i-1) : response.voices[j].name # n].voice_id]

\* get_available_voices: a dict comprehension over voices_data["voices"] on
\* status 200 (a later voice of the same name replaces an earlier one), {}
\* otherwise.
get_available_voices(response) ==
    IF response.status = 200
    THEN [n \in {response.voices[i].name : i \in 1..Len(response.voices)} |->
            response.voices[CHOOSE i \in 1..Len(response.voices) :
                /\ response.voices[i].name = n
                /\ \A j \in (i+1)..Len(response.voices) :
                      response.voices[j].name # n].voice_id]
    ELSE EmptyDict

\* The outcome of one text_to_speech.convert call is the remote service's:
\* FAIL (the call or the decoding raises) or the length in ms of the audio.
FAIL == -1

\* generate_audio(text, voice_id, voice_settings), when it returns.
generate_audio(text, voice_id, dur) ==
    [text |-> text, voice_id |-> voice_id, dur |-> dur]

----------------------------------------------------------------------------
(* Step 5, "Generate All Audio".  A pass is the record of the list built   *)
(* so far, the labels generate_audio was called for, and the exception     *)
(* that ended it ("" if none).                                             *)

\* Faulty variant of EmptyPass: the pass appends to the list of the session.
PreviousListPass == [segs |-> audio_segments, calls |-> <<>>, err |-> ""]

\* st.session_state.audio_segments = [] at the start of the pass.
EmptyPass == [segs |-> <<>>, calls |-> <<>>, err |-> ""]

\* Faulty variant of SynthAppend: the list is dropped when a call fails.
SynthAppendDiscard(p, label, text, voice_id, outs) ==
    LET out == outs[Len(p.calls) + 1] IN
    IF out = FAIL
    THEN [p EXCEPT !.calls = Append(@, label), !.err = "SynthesisError", !.segs = <<>>]
    ELSE [p EXCEPT !.calls = Append(@, label),
                   !.segs = Append(@, <<label, generate_audio(text, voice_id, out)>>)]

\* One generate_audio call and the append that follows it; outs[n] is the
\* outcome of the n-th call of the run.
SynthAppend(p, label, text, voice_id, outs) ==
    LET out == outs[Len(p.calls) + 1] IN
    IF out = FAIL
    THEN [p EXCEPT !.calls = Append(@, label), !.err = "SynthesisError"]
    ELSE [p EXCEPT !.calls = Append(@, label),
                   !.segs = Append(@, <<label, generate_audio(text, voice_id, out)>>)]

\* The intro block.
GenIntro(p, c, av, outs) ==
    IF ~Truthy(c.intro_text) THEN p
    ELSE IF c.intro_voice \notin DOMAIN av THEN [p EXCEPT !.err = "KeyError"]
    ELSE SynthAppend(p, "Intro", c.intro_text, av[c.intro_voice], outs)

\* Faulty variant of GenLine: the label counts the segments built so far, the
\* Intro included, instead of the script lines.
GenLineCountsSegments(p, s, c, av, i, outs) ==
    LET line == s[i + 1]
        speaker == line["speaker"] IN
    IF speaker \notin DOMAIN c.podcasters THEN [p EXCEPT !.err = "KeyError"]
    ELSE IF c.podcasters[speaker] \notin DOMAIN av THEN [p EXCEPT !.err = "KeyError"]
    ELSE SynthAppend(p, LineLabel(Len(p.segs)), line["text"],
                     av[c.podcasters[speaker]], outs)

\* One iteration of the dialog loop, for the 0-based index i.
GenLine(p, s, c, av, i, outs) ==
    LET line == s[i + 1]
        speaker == line["speaker"] IN
    IF speaker \notin DOMAIN c.podcasters THEN [p EXCEPT !.err = "KeyError"]
    ELSE IF c.podcasters[speaker] \notin DOMAIN av THEN [p EXCEPT !.err = "KeyError"]
    ELSE SynthAppend(p, LineLabel(i), line["text"], av[c.podcasters[speaker]], outs)

\* The dialog loop from index i on; an exception ends it.
RECURSIVE GenLines(_, _, _, _, _, _)
GenLines(p, s, c, av, i, outs) ==
    IF p.err # "" \/ i >= Len(s) THEN p
    ELSE GenLines(GenLine(p, s, c, av, i, outs), s, c, av, i + 1, outs)

\* Faulty variant of GenOutro: the outro is synthesized with the intro voice.
GenOutroIntroVoice(p, c, av, outs) ==
    IF p.err # "" \/ ~Truthy(c.outro_text) THEN p
    ELSE IF c.intro_voice \notin DOMAIN av THEN [p EXCEPT !.err = "KeyError"]
    ELSE SynthAppend(p, "Outro", c.outro_text, av[c.intro_voice], outs)

\* The outro block.
GenOutro(p, c, av, outs) ==
    IF p.err # "" \/ ~Truthy(c.outro_text) THEN p
    ELSE IF c.outro_voice \notin DOMAIN av THEN [p EXCEPT !.err = "KeyError"]
    ELSE SynthAppend(p, "Outro", c.outro_text, av[c.outro_voice], outs)

\* The whole handler of the button.
GeneratePass(s, c, av, outs) ==
    GenOutro(GenLines(GenIntro(EmptyPass, c, av, outs), s, c, av, 0, outs), c, av, outs)

----------------------------------------------------------------------------
(* Step 5, the display loop.                                               *)

\* The loop body up to the "Regenerate" button raises IndexError for a
\* "Line n" segment when the script has fewer than n lines.
Stale(seg, s) ==
    /\ seg[1] \notin {"Intro", "Outro"}
    /\ LineIndex(seg[1]) >= Len(s)

\* The loop reaches the button of the k-th segment (1-based).
Reaches(segs, s, k) == \A j \in 1..k : ~Stale(segs[j], s)

DisplayErr(segs, s) ==
    IF Reaches(segs, s, Len(segs)) THEN "" ELSE "IndexError"

----------------------------------------------------------------------------
(* Step 6.                                                                 *)

SilenceMs == 500

\* AudioSegment.silent(duration=500)
Silent == [text |-> "", voice_id |-> "silence", dur |-> SilenceMs]

\* The loop "full_audio += audio; full_audio += silent" from segment k on.
RECURSIVE Combine(_, _, _)
Combine(full, segs, k) ==
    IF k > Len(segs) THEN full
    ELSE Combine(Append(Append(full, segs[k][2]), Silent), segs, k + 1)

\* config['intro_music']: None, or the stream object st.file_uploader
\* returned when step 4 was last drawn.  The stream holds an MP3 of dur ms
\* and a read position: consumed says the position is at the end.  A draw
\* of step 4 assigns the uploader's value anew, a stream at its start.
NoMusic == [present |-> FALSE, dur |-> 0, consumed |-> FALSE]
Music(d) == [present |-> TRUE, dur |-> d, consumed |-> FALSE]

\* The stream after AudioSegment.from_mp3 has read it: nothing in step_6
\* rewinds it.
ReadStream(music) ==
    IF music.present THEN [music EXCEPT !.consumed = TRUE] ELSE music

\* The outcomes of the export of one finalization: the file is written, or
\* the export raises before it writes.  (The uploads are valid MP3 files.)
FinalizeOutcomes == {"ok", "OSError"}

\* AudioSegment.from_mp3(config['intro_music']): the bytes from the read
\* position on are decoded.  A consumed stream yields no bytes and the
\* decoding raises.
from_mp3(music) ==
    IF music.consumed
    THEN [raises |-> TRUE, clips |-> <<>>]
    ELSE [raises |-> FALSE,
          clips |-> <<[text |-> "", voice_id |-> "music", dur |-> music.dur]>>]

\* The clips of full_audio when it is exported: intro is what the decoding
\* of the intro music gave (<<>> without music).
FullAudio(intro, segs) == Combine(intro, segs, 1)

\* len(full_audio): concatenation adds lengths.
RECURSIVE Duration(_)
Duration(clips) ==
    IF clips = <<>> THEN 0 ELSE Head(clips).dur + Duration(Tail(clips))

NoFile == [exists |-> FALSE, clips |-> <<>>]

----------------------------------------------------------------------------
(* The state after init_session_state() in a new session.                  *)

\* What a run did: the button (op), the exception that ended it ("" if
\* none), the segment it addressed (k, 0 if none), the text it was given
\* the labels it called generate_audio for, and the call statement an
\* uncaught synthesis exception is reported with.
\* The statement of step_5 the traceback of an uncaught synthesis exception
\* names: generate_audio takes no label and nothing in step_5 catches the
\* exception, so the report on the page is the exception with its stack.
\* The dialog loop and the line branch of the regeneration have one call
\* statement for all lines.
CallSite(op, err, calls) ==
    IF err # "SynthesisError" THEN ""
    ELSE LET label == calls[Len(calls)] IN
         IF op = "generate"
         THEN (CASE label = "Intro" -> "step_5:271"
                 [] label = "Outro" -> "step_5:291"
                 [] OTHER -> "step_5:282")
         ELSE (CASE label = "Intro" -> "step_5:316"
                 [] label = "Outro" -> "step_5:323"
                 [] OTHER -> "step_5:333")

Event(op, err, k, text, calls) ==
    [op |-> op, err |-> err, k |-> k, text |-> text, calls |-> calls,
     site |-> CallSite(op, err, calls)]

NoExport == [kind |-> "none", items |-> <<>>]

Init ==
    /\ current_step = 0
    /\ script = <<>>
    /\ config = [intro_text |-> "", intro_voice |-> "",
                 outro_text |-> "", outro_voice |-> "",
                 intro_music |-> NoMusic, podcasters |-> EmptyDict]
    /\ audio_segments = <<>>
    /\ available_voices = EmptyDict
    /\ podcast_file = NoFile
    /\ exported = NoExport
    /\ ev = Event("init", "", 0, "", <<>>)

----------------------------------------------------------------------------
(* The step functions, as functions of the session state and the widget    *)
(* values of the run.                                                      *)

\* step_3: every line is assigned the value of its two widgets.  A widget
\* the user did not touch holds str() of the line's value; edit names the
\* widget the user changed (edit.i = 0: none).
NoEdit == [i |-> 0, field |-> "text", value |-> ""]
step_3(s, edit) ==
    [i \in 1..Len(s) |->
        [s[i] EXCEPT
            !["speaker"] = IF edit.i = i /\ edit.field = "speaker"
                           THEN edit.value ELSE Str(@),
            !["text"]    = IF edit.i = i /\ edit.field = "text"
                           THEN edit.value ELSE Str(@)]]

\* What st.selectbox can return: one of the options, None when there is none.
SelectOptions(av) == IF DOMAIN av = {} THEN {NONE} ELSE DOMAIN av

\* set(line['speaker'] for line in st.session_state.script)
Podcasters(s) == {s[i]["speaker"] : i \in 1..Len(s)}

\* step_4: config is assigned the values w of the widgets; podcasters gets
\* an entry for every speaker of the script and keeps its other entries.
step_4(c, s, w) ==
    [intro_text  |-> w.intro_text,
     intro_voice |-> w.intro_voice,
     outro_text  |-> w.outro_text,
     outro_voice |-> w.outro_voice,
     podcasters  |-> [p \in DOMAIN c.podcasters \cup Podcasters(s) |->
                        IF p \in Podcasters(s) THEN w.voice[p] ELSE c.podcasters[p]],
     intro_music |-> w.intro_music]

\* The widget values a run of step_4 can see, over the texts and the music
\* files of the universe u.
Step4Widgets(u, s, av) ==
    [intro_text : u.introTexts, intro_voice : SelectOptions(av),
     outro_text : u.outroTexts, outro_voice : SelectOptions(av),
     voice : [Podcasters(s) -> SelectOptions(av)],
     intro_music : u.music]

----------------------------------------------------------------------------
(* The runs.  Every action is one run of main().                           *)

\* A sidebar button: current_step is set, then the step is drawn.  Drawing
\* step 3 and step 4 assigns the widget values; drawing step 5 runs the
\* display loop; step 7 opens the podcast file.
Navigate(u, i) ==
    /\ current_step' = i
    /\ script' = IF i = 3 THEN step_3(script, NoEdit) ELSE script
    /\ IF i = 4
       THEN \E w \in Step4Widgets(u, script, available_voices) :
               config' = step_4(config, script, w)
       ELSE config' = config
    /\ ev' = Event("navigate",
                   CASE i = 5 -> DisplayErr(audio_segments, script)
                     [] i = 7 /\ ~podcast_file.exists -> "FileNotFoundError"
                     [] OTHER -> "",
                   0, "", <<>>)
    /\ UNCHANGED <<audio_segments, available_voices, podcast_file, exported>>

\* step_0_instructions: "Proceed to API Key Input".
ProceedToApiKey ==
    /\ current_step = 0
    /\ current_step' = 1
    /\ ev' = Event("proceed", "", 0, "", <<>>)
    /\ UNCHANGED <<script, config, audio_segments, available_voices,
                   podcast_file, exported>>

\* step_1: "Submit API Key"; response is the voice directory's answer.
SubmitApiKey(response) ==
    /\ current_step = 1
    /\ available_voices' = get_available_voices(response)
    /\ current_step' = 2
    /\ ev' = Event("submit", IF response.status = 200 THEN "" ELSE "FetchFailed", 0, "", <<>>)
    /\ UNCHANGED <<script, config, audio_segments, podcast_file, exported>>

\* The try block shared by "Load Script" and the file uploader of step_2.
AcceptScript(op, doc) ==
    LET loaded == JsonLoads(doc) IN
    IF loaded.raises
    THEN /\ ev' = Event(op, "JSONDecodeError", 0, "", <<>>)
         /\ UNCHANGED <<script, current_step>>
    ELSE IF ValidScript(loaded)
    THEN /\ script' = ScriptOf(loaded)
         /\ current_step' = 3
         /\ ev' = Event(op, "", 0, "", <<>>)
    ELSE /\ ev' = Event(op, "InvalidFormat", 0, "", <<>>)
         /\ UNCHANGED <<script, current_step>>

\* Faulty variant of LoadScript: an accepted script empties the segment list.
LoadScriptDropsSegments(doc) ==
    /\ current_step = 2
    /\ AcceptScript("load", doc)
    /\ audio_segments' = IF script' # script THEN <<>> ELSE audio_segments
    /\ UNCHANGED <<config, available_voices, podcast_file, exported>>

\* step_2: "Load Script" with doc in the text area.
LoadScript(doc) ==
    /\ current_step = 2
    /\ AcceptScript("load", doc)
    /\ UNCHANGED <<config, audio_segments, available_voices, podcast_file, exported>>

\* step_2: "Export Script".
ExportScript ==
    /\ current_step = 2
    /\ exported' = JsonDumps(script)
    /\ ev' = Event("export", "", 0, "", <<>>)
    /\ UNCHANGED <<current_step, script, config, audio_segments,
                   available_voices, podcast_file>>

\* step_2: a file dropped on "Import Script from JSON".
ImportScript(doc) ==
    /\ current_step = 2
    /\ AcceptScript("import", doc)
    /\ UNCHANGED <<config, audio_segments, available_voices, podcast_file, exported>>

\* step_2: the text of the last download link, pasted into the text area
\* ("load") or saved and dropped on the uploader ("import").
ReloadExported(op) ==
    /\ current_step = 2
    /\ exported # NoExport
    /\ AcceptScript(IF op = "load" THEN "reload" ELSE "reimport", exported)
    /\ UNCHANGED <<config, audio_segments, available_voices, podcast_file, exported>>

\* step_3: the user changes one widget of line i.
EditScript(i, field, value) ==
    /\ current_step = 3
    /\ i \in 1..Len(script)
    /\ script' = step_3(script, [i |-> i, field |-> field, value |-> value])
    /\ ev' = Event("edit", "", 0, "", <<>>)
    /\ UNCHANGED <<current_step, config, audio_segments, available_voices,
                   podcast_file, exported>>

\* step_3: "Proceed to Configuration".
ProceedToConfiguration ==
    /\ current_step = 3
    /\ script' = step_3(script, NoEdit)
    /\ current_step' = 4
    /\ ev' = Event("proceed", "", 0, "", <<>>)
    /\ UNCHANGED <<config, audio_segments, available_voices, podcast_file, exported>>

\* step_4: "Proceed to Audio Generation", the widgets holding w.
ProceedToAudio(u) ==
    /\ current_step = 4
    /\ \E w \in Step4Widgets(u, script, available_voices) :
          config' = step_4(config, script, w)
    /\ current_step' = 5
    /\ ev' = Event("proceed", "", 0, "", <<>>)
    /\ UNCHANGED <<script, audio_segments, available_voices, podcast_file, exported>>

\* step_5: "Generate All Audio"; outs are the outcomes of the synthesis calls.
GenerateAll(outs) ==
    /\ current_step = 5
    /\ LET p == GeneratePass(script, config, available_voices, outs) IN
          /\ audio_segments' = p.segs
          /\ ev' = Event("generate", p.err, 0, "", p.calls)
    /\ UNCHANGED <<current_step, script, config, available_voices,
                   podcast_file, exported>>

\* The regeneration of the k-th segment (1-based), the body of
\* "if st.button(f'Regenerate {label}')".  Its result is the session after
\* it, the exception that ended it and the calls it made.
RegenResult(segs, s, c, err, calls) ==
    [segs |-> segs, script |-> s, config |-> c, err |-> err, calls |-> calls]

\* The voice lookup that precedes the call: the voice_id, or NONE when a
\* subscript raises KeyError.
RegenVoice(label, s, c, av) ==
    IF label = "Intro" THEN
        IF c.intro_voice \in DOMAIN av THEN av[c.intro_voice] ELSE NONE
    ELSE IF label = "Outro" THEN
        IF c.outro_voice \in DOMAIN av THEN av[c.outro_voice] ELSE NONE
    ELSE
        LET speaker == s[LineIndex(label) + 1]["speaker"] IN
        IF speaker \in DOMAIN c.podcasters /\ c.podcasters[speaker] \in DOMAIN av
        THEN av[c.podcasters[speaker]] ELSE NONE

\* Faulty variant of RegenAssign: the new audio is appended to the list instead of
\* stored at index i.
RegenAssignAppend(segs, s, c, k, new_text, new_audio) ==
    LET label == segs[k][1]
        segs2 == Append(segs, <<label, new_audio>>) IN
    IF label = "Intro"
    THEN RegenResult(segs2, s, [c EXCEPT !.intro_text = new_text], "", <<label>>)
    ELSE IF label = "Outro"
    THEN RegenResult(segs2, s, [c EXCEPT !.outro_text = new_text], "", <<label>>)
    ELSE RegenResult(segs2, [s EXCEPT ![LineIndex(label) + 1]["text"] = new_text],
                     c, "", <<label>>)

\* Faulty variant of RegenAssign: the source text is not written.
RegenAssignKeepsText(segs, s, c, k, new_text, new_audio) ==
    RegenResult([segs EXCEPT ![k] = <<segs[k][1], new_audio>>], s, c, "",
                <<segs[k][1]>>)

\* The assignments after the call: the source text of the label, then
\* audio_segments[i] = (label, new_audio).
RegenAssign(segs, s, c, k, new_text, new_audio) ==
    LET label == segs[k][1]
        segs2 == [segs EXCEPT ![k] = <<label, new_audio>>] IN
    IF label = "Intro"
    THEN RegenResult(segs2, s, [c EXCEPT !.intro_text = new_text], "", <<label>>)
    ELSE IF label = "Outro"
    THEN RegenResult(segs2, s, [c EXCEPT !.outro_text = new_text], "", <<label>>)
    ELSE RegenResult(segs2, [s EXCEPT ![LineIndex(label) + 1]["text"] = new_text],
                     c, "", <<label>>)

\* Faulty variant of RegenRaise: the source text is written before the call.
RegenRaiseAfterText(segs, s, c, k, new_text) ==
    [RegenAssign(segs, s, c, k, new_text, segs[k][2]) EXCEPT !.err = "SynthesisError"]

\* generate_audio raised: the assignments after the call are not reached.
RegenRaise(segs, s, c, k, new_text) ==
    RegenResult(segs, s, c, "SynthesisError", <<segs[k][1]>>)

\* new_text is the value of the segment's text area, out the outcome of the
\* synthesis call.
Regen(segs, s, c, av, k, new_text, out) ==
    LET voice_id == RegenVoice(segs[k][1], s, c, av) IN
    IF voice_id = NONE THEN RegenResult(segs, s, c, "KeyError", <<>>)
    ELSE IF out = FAIL THEN RegenRaise(segs, s, c, k, new_text)
    ELSE RegenAssign(segs, s, c, k, new_text, generate_audio(new_text, voice_id, out))

\* step_5: "Regenerate <label>" of the k-th segment.  The display loop has
\* to reach the button.
Regenerate(k, new_text, out) ==
    /\ current_step = 5
    /\ k \in 1..Len(audio_segments)
    /\ Reaches(audio_segments, script, k)
    /\ LET r == Regen(audio_segments, script, config, available_voices,
                      k, new_text, out) IN
          /\ audio_segments' = r.segs
          /\ script' = r.script
          /\ config' = r.config
          /\ ev' = Event("regenerate", r.err, k, new_text, r.calls)
    /\ UNCHANGED <<current_step, available_voices, podcast_file, exported>>

\* step_5: "Proceed to Finalization", drawn after the display loop.
ProceedToFinalization ==
    /\ current_step = 5
    /\ DisplayErr(audio_segments, script) = ""
    /\ current_step' = 6
    /\ ev' = Event("proceed", "", 0, "", <<>>)
    /\ UNCHANGED <<script, config, audio_segments, available_voices,
                   podcast_file, exported>>

\* step_6: "Finalize Podcast"; out is the outcome of the export.  An exception of from_mp3 or of export is not caught: the run
\* ends, the file and current_step stay.  The stream has been read by then.
Finalize(out) ==
    /\ current_step = 6
    /\ LET music == config.intro_music
           intro == IF music.present THEN from_mp3(music)
                    ELSE [raises |-> FALSE, clips |-> <<>>]
           err   == IF intro.raises THEN "CouldntDecodeError"
                    ELSE IF out = "OSError" THEN "OSError" ELSE ""
       IN
          /\ config' = [config EXCEPT !.intro_music = ReadStream(@)]
          /\ podcast_file' =
                IF err = ""
                THEN [exists |-> TRUE, clips |-> FullAudio(intro.clips, audio_segments)]
                ELSE podcast_file
          /\ current_step' = IF err = "" THEN 7 ELSE current_step
          /\ ev' = Event("finalize", err, 0, out, <<>>)
    /\ UNCHANGED <<script, audio_segments, available_voices, exported>>

----------------------------------------------------------------------------
(* The inputs.  A universe u names the finite sets the user's and the      *)
(* remote services' inputs are drawn from.                                 *)

Steps == 0..7

Line(speaker, text) == ObjItem(<< <<"speaker", speaker>>, <<"text", text>> >>)

\* The most synthesis calls a "Generate All Audio" run makes.
NumCalls(s, c) ==
    Len(s) + (IF Truthy(c.intro_text) THEN 1 ELSE 0)
           + (IF Truthy(c.outro_text) THEN 1 ELSE 0)

\* The outcomes of the synthesis calls of one run that makes at most n: the
\* run ends at the first failure, so what would follow it is left as FAIL.
Outcomes(u, n) ==
    {outs \in [1..n -> u.durs \cup {FAIL}] :
        \A i \in 1..n : outs[i] = FAIL => \A j \in i..n : outs[j] = FAIL}

\* The runs that write the session: every button but "Export Script" and
\* "Finalize Podcast", which write a download link and the podcast file.
SessionRuns(u) ==
    \/ \E i \in Steps : Navigate(u, i)
    \/ ProceedToApiKey
    \/ \E r \in u.responses : SubmitApiKey(r)
    \/ \E d \in u.docs : LoadScript(d)
    \/ \E d \in u.docs : ImportScript(d)
    \/ \E i \in 1..MaxLines + 1, v \in u.speakers : EditScript(i, "speaker", v)
    \/ \E i \in 1..MaxLines + 1, v \in u.texts : EditScript(i, "text", v)
    \/ ProceedToConfiguration
    \/ ProceedToAudio(u)
    \/ \E outs \in Outcomes(u, NumCalls(script, config)) : GenerateAll(outs)
    \/ \E k \in 1..MaxLines + 3, t \in u.texts, out \in u.durs \cup {FAIL} :
          Regenerate(k, t, out)
    \/ ProceedToFinalization

\* One voice of the directory's answer.
Voice(name, id) == [name |-> name, voice_id |-> id]

\* The audio pipeline: scripts of the lines Alex/"t1" and Sarah/"t2", edits
\* and regenerations that write Sarah and "t1", one voice that the directory
\* always lists.
PipelineU ==
    [docs      |-> {ListDoc(items) :
                      items \in SeqsUpTo({Line("Alex", "t1"), Line("Sarah", "t2")},
                                         MaxLines)},
     responses |-> {[status |-> 200, voices |-> <<Voice("Rachel", "r1")>>]},
     speakers  |-> {"Sarah"},
     texts     |-> {"t1"},
     introTexts |-> {"", "t1"},
     outroTexts |-> {"", "t1"},
     music     |-> {NoMusic},
     durs      |-> {1000}]

Next == SessionRuns(PipelineU)
Spec == Init /\ [][Next]_vars

\* The voices: one speaker, one text, a directory that fails or lists two
\* voices.
VoicesU ==
    [docs      |-> {ListDoc(items) : items \in SeqsUpTo({Line("Alex", "t1")}, MaxLines)},
     responses |-> {[status |-> 401, voices |-> <<>>],
                    [status |-> 200,
                     voices |-> <<Voice("Rachel", "r1"), Voice("Adam", "a1")>>]},
     speakers  |-> {"Alex"},
     texts     |-> {"t1"},
     introTexts |-> {"", "t1"},
     outroTexts |-> {"", "t1"},
     music     |-> {NoMusic},
     durs      |-> {1000}]

NextVoices == SessionRuns(VoicesU)
SpecVoices == Init /\ [][NextVoices]_vars

\* The voice directory: a request that fails with voices in its body, one
\* that lists a name twice, one that lists a single voice; no intro, no
\* outro.
DirectoryU ==
    [docs      |-> {ListDoc(items) : items \in SeqsUpTo({Line("Alex", "t1")}, MaxLines)},
     responses |-> {[status |-> 401, voices |-> <<Voice("Rachel", "r1")>>],
                    [status |-> 200,
                     voices |-> <<Voice("Rachel", "r1"), Voice("Adam", "a1"),
                                  Voice("Rachel", "r2")>>],
                    [status |-> 200, voices |-> <<Voice("Adam", "a1")>>]},
     speakers  |-> {"Alex"},
     texts     |-> {"t1"},
     introTexts |-> {""},
     outroTexts |-> {""},
     music     |-> {NoMusic},
     durs      |-> {1000}]

NextDirectory == SessionRuns(DirectoryU)
SpecDirectory == Init /\ [][NextDirectory]_vars

\* Finalization: one speaker, one text, one voice, optional intro music.
FinalU ==
    [docs      |-> {ListDoc(items) : items \in SeqsUpTo({Line("Alex", "t1")}, MaxLines)},
     responses |-> {[status |-> 200, voices |-> <<Voice("Rachel", "r1")>>]},
     speakers  |-> {"Alex"},
     texts     |-> {"t1"},
     introTexts |-> {"", "t1"},
     outroTexts |-> {""},
     music     |-> {NoMusic, Music(3000)},
     durs      |-> {1000}]

NextFinal ==
    \/ SessionRuns(FinalU)
    \/ \E out \in FinalizeOutcomes : Finalize(out)
SpecFinal == Init /\ [][NextFinal]_vars

\* The script exchange: the user stays in steps 0 to 3 (the audio steps are
\* never drawn) and exports.  The documents hold a well-formed line, an
\* object with a third member, one with a number for speaker and a repeated
\* key, one without text, and a value that is no object.
ScriptSteps == 0..3

JsonItems ==
    {Line("Alex", "t1"),
     ObjItem(<< <<"speaker", "Alex">>, <<"text", "t1">>, <<"note", "x">> >>),
     ObjItem(<< <<"speaker", "#1">>, <<"text", "t2">>, <<"text", "t1">> >>),
     ObjItem(<< <<"speaker", "Alex">> >>),
     ScalarItem}

JsonU ==
    [docs      |-> {InvalidDoc, ObjectDoc} \cup
                   {ListDoc(items) : items \in SeqsUpTo(JsonItems, MaxLines)},
     responses |-> {[status |-> 200, voices |-> <<Voice("Rachel", "r1")>>]},
     speakers  |-> {"Alex"},
     texts     |-> {"t1"}]

NextJson ==
    \/ \E i \in ScriptSteps : Navigate(JsonU, i)
    \/ ProceedToApiKey
    \/ \E r \in JsonU.responses : SubmitApiKey(r)
    \/ \E d \in JsonU.docs : LoadScript(d)
    \/ \E d \in JsonU.docs : ImportScript(d)
    \/ ExportScript
    \/ \E op \in {"load", "import"} : ReloadExported(op)
    \/ \E i \in 1..MaxLines + 1, v \in JsonU.speakers : EditScript(i, "speaker", v)
    \/ \E i \in 1..MaxLines + 1, v \in JsonU.texts : EditScript(i, "text", v)
    \/ ProceedToConfiguration

SpecJson == Init /\ [][NextJson]_vars

----------------------------------------------------------------------------
(* Properties of "Generate All Audio".                                     *)

IsDialog(seg) == seg[1] \notin {"Intro", "Outro"}

\* The last run was a "Generate All Audio" pass that no exception ended.
PassSucceeded == ev.op = "generate" /\ ev.err = ""

\* C1: after a pass in which every synthesis call succeeds, the segments
\* other than Intro and Outro are exactly one per script line, labelled
\* "Line 1" .. "Line N" in script order, the i-th synthesized from the text
\* of script line i.
C1_OrderPreservation ==
    PassSucceeded =>
        LET lines == SelectSeq(audio_segments, IsDialog) IN
        /\ Len(lines) = Len(script)
        /\ \A i \in 1..Len(script) :
              /\ lines[i][1] = LineLabels[i]
              /\ lines[i][2].text = script[i]["text"]

C1_Witness ==
    /\ PassSucceeded
    /\ Len(script) >= 2
    /\ script[1]["text"] # script[2]["text"]
    /\ script[1]["speaker"] # script[2]["speaker"]
    /\ Truthy(config.intro_text)
    /\ Truthy(config.outro_text)

\* C2: when a speaker of the script has no entry in config['podcasters'],
\* a "Generate All Audio" pass calls generate_audio for no label at all.
C2_ValidationGate ==
    (/\ ev.op = "generate"
     /\ \E i \in 1..Len(script) : script[i]["speaker"] \notin DOMAIN config.podcasters)
    => ev.calls = <<>>

\* C4: when the synthesis call for script line k (0-based) fails, the
\* segment list is the Intro (if the intro text is non-empty) followed by
\* "Line 1" .. "Line k", each with the audio synthesized for its text.
C4_FailurePreservesEarlier ==
    \A k \in 0..(Len(script) - 1) :
        (/\ ev.op = "generate"
         /\ ev.err = "SynthesisError"
         /\ ev.calls[Len(ev.calls)] = LineLabels[k + 1])
        => LET intro == IF Truthy(config.intro_text) THEN 1 ELSE 0 IN
           /\ Len(audio_segments) = intro + k
           /\ intro = 1 => /\ audio_segments[1][1] = "Intro"
                           /\ audio_segments[1][2].text = config.intro_text
           /\ \A j \in 1..k :
                 /\ audio_segments[intro + j][1] = LineLabels[j]
                 /\ audio_segments[intro + j][2].text = script[j]["text"]

C4_Witness ==
    /\ ev.op = "generate"
    /\ ev.err = "SynthesisError"
    /\ ev.calls = <<"Intro", "Line 1", "Line 2">>
    /\ Len(audio_segments) = 2

\* C9: after a pass that succeeds, the list starts with an "Intro" exactly
\* when the intro text is non-empty and ends with an "Outro" exactly when
\* the outro text is non-empty; the Intro carries the intro voice and text,
\* the Outro the outro voice and text, and neither label occurs elsewhere.
C9_IntroOutro ==
    PassSucceeded =>
        LET n == Len(audio_segments) IN
        /\ Truthy(config.intro_text) <=> (n >= 1 /\ audio_segments[1][1] = "Intro")
        /\ Truthy(config.outro_text) <=> (n >= 1 /\ audio_segments[n][1] = "Outro")
        /\ \A j \in 1..n :
              /\ audio_segments[j][1] = "Intro" =>
                    /\ j = 1
                    /\ audio_segments[j][2].text = config.intro_text
                    /\ audio_segments[j][2].voice_id = available_voices[config.intro_voice]
              /\ audio_segments[j][1] = "Outro" =>
                    /\ j = n
                    /\ audio_segments[j][2].text = config.outro_text
                    /\ audio_segments[j][2].voice_id = available_voices[config.outro_voice]

C9_Witness ==
    /\ PassSucceeded
    /\ Len(script) >= 1
    /\ Truthy(config.intro_text)
    /\ Truthy(config.outro_text)
    /\ config.intro_voice # config.outro_voice

----------------------------------------------------------------------------
(* Properties of "Regenerate <label>".                                     *)

\* The run that leads to the next state is a regeneration that succeeded.
RegeneratedNext == ev'.op = "regenerate" /\ ev'.err = ""

\* C3: a successful regeneration of segment k changes only that segment's
\* audio and the source text of its label; the other segments, the other
\* script lines, every speaker and the other of intro and outro text stay.
C3_RegenerationIsolation ==
    [][RegeneratedNext =>
        LET k == ev'.k
            label == audio_segments[k][1] IN
        /\ Len(audio_segments') = Len(audio_segments)
        /\ audio_segments'[k][1] = label
        /\ \A j \in 1..Len(audio_segments) :
              j # k => audio_segments'[j] = audio_segments[j]
        /\ Len(script') = Len(script)
        /\ \A i \in 1..Len(script) :
              /\ script'[i]["speaker"] = script[i]["speaker"]
              /\ label # LineLabels[i] => script'[i] = script[i]
        /\ label # "Intro" => config'.intro_text = config.intro_text
        /\ label # "Outro" => config'.outro_text = config.outro_text
        /\ label \in {"Intro", "Outro"} => script' = script
      ]_vars

C3_Witness ==
    /\ ev.op = "regenerate"
    /\ ev.err = ""
    /\ Len(audio_segments) >= 4
    /\ ev.k = 2
    /\ Len(script) >= 2

\* C5: a regeneration whose synthesis call fails leaves the segments, the
\* script and the configuration as they were.
C5_FailedRegenerationNoChange ==
    [][(ev'.op = "regenerate" /\ ev'.err = "SynthesisError") =>
        /\ audio_segments' = audio_segments
        /\ script' = script
        /\ config' = config
        /\ UNCHANGED <<current_step, available_voices, podcast_file>>
      ]_vars

\* A regeneration of "Line 2" failed with a new text other than the line's.
C5_Witness ==
    /\ ev.op = "regenerate"
    /\ ev.err = "SynthesisError"
    /\ audio_segments[ev.k][1] = "Line 2"
    /\ Len(script) >= 2
    /\ script[2]["text"] # ev.text

\* C8: after a successful regeneration of segment k with new_text, the list
\* has the same length and the same labels in the same order, and the
\* source text the label of k stands for is new_text: the intro text, the
\* outro text, or the text of script line j for "Line j", which the script
\* export then writes.
C8_SourceTextUpdated ==
    [][RegeneratedNext =>
        LET k == ev'.k
            label == audio_segments[k][1] IN
        /\ Len(audio_segments') = Len(audio_segments)
        /\ \A j \in 1..Len(audio_segments) :
              audio_segments'[j][1] = audio_segments[j][1]
        /\ audio_segments'[k][2].text = ev'.text
        /\ label = "Intro" => config'.intro_text = ev'.text
        /\ label = "Outro" => config'.outro_text = ev'.text
        /\ label \notin {"Intro", "Outro"} =>
              \E j \in 1..Len(script') :
                 /\ label = LineLabels[j]
                 /\ script'[j]["text"] = ev'.text
                 /\ \E m \in 1..Len(JsonDumps(script').items[j].pairs) :
                       JsonDumps(script').items[j].pairs[m] = <<"text", ev'.text>>
      ]_vars

\* "Line 2" was regenerated and the script's second line holds the new text.
C8_Witness ==
    /\ ev.op = "regenerate"
    /\ ev.err = ""
    /\ audio_segments[ev.k][1] = "Line 2"
    /\ Len(script) >= 2
    /\ script[2]["text"] = ev.text
    /\ script[2]["speaker"] = "Sarah"

----------------------------------------------------------------------------
(* Properties of "Finalize Podcast".                                       *)

RECURSIVE SegmentsMs(_)
SegmentsMs(segs) ==
    IF segs = <<>> THEN 0 ELSE Head(segs)[2].dur + SegmentsMs(Tail(segs))

\* C6: a finalization whose export works produces
\* audio that lasts the intro music (0 without), plus the segments, plus
\* 500 ms for every segment, the last one included; so does a second
\* finalization of the same segments and music.
C6_FinalDuration ==
    [][(ev'.op = "finalize" /\ ev'.text = "ok") =>
          /\ ev'.err = ""
          /\ podcast_file'.exists
          /\ Duration(podcast_file'.clips) =
                (IF config.intro_music.present THEN config.intro_music.dur ELSE 0)
                + SegmentsMs(audio_segments) + 500 * Len(audio_segments)
      ]_vars

----------------------------------------------------------------------------
(* Properties of the script exchange.                                      *)

\* C7: the script exported and then loaded or imported again is the same
\* ordered sequence of lines, with the same members.
C7_RoundTrip ==
    [][(ev.op = "export" /\ ev'.op \in {"reload", "reimport"}) =>
        /\ ev'.err = ""
        /\ script' = script
      ]_vars

\* A script of two different lines, one with a third member and one with a
\* number for speaker, came back from its own export.
C7_Witness ==
    /\ ev.op \in {"reload", "reimport"}
    /\ ev.err = ""
    /\ exported = JsonDumps(script)
    /\ Len(script) >= 2
    /\ \E i, j \in 1..Len(script) :
          /\ "note" \in DOMAIN script[i]
          /\ script[j]["speaker"] \in NonStrings

\* The shape C10 asks of a document: a list of objects, each with the two
\* members speaker and text and no other, both strings.
StrictDoc(doc) ==
    /\ doc.kind = "list"
    /\ \A i \in 1..Len(doc.items) :
          /\ doc.items[i].isdict
          /\ {doc.items[i].pairs[m][1] : m \in 1..Len(doc.items[i].pairs)}
                = {"speaker", "text"}
          /\ \A m \in 1..Len(doc.items[i].pairs) :
                doc.items[i].pairs[m][2] \notin NonStrings

\* C10: "Load Script" and the uploader replace the script exactly when the
\* document has the strict shape; otherwise script and step are unchanged.
C10_StrictShapeOnly ==
    [][\A d \in JsonU.docs :
          (LoadScript(d) \/ ImportScript(d)) =>
             IF StrictDoc(d)
             THEN ev'.err = "" /\ script' = ScriptOf(JsonLoads(d))
             ELSE ev'.err # "" /\ script' = script /\ current_step' = current_step
      ]_vars

----------------------------------------------------------------------------
(* Properties of the error reports.                                        *)

\* The label a report of a synthesis failure tells the user: the statement
\* of the traceback tells the intro and the outro block from the line
\* block, and nothing tells one line from another.
ReportedLabel(site) ==
    CASE site \in {"step_5:271", "step_5:316"} -> "Intro"
      [] site \in {"step_5:291", "step_5:323"} -> "Outro"
      [] OTHER -> "Line"

\* C11: a synthesis failure in "Generate All Audio" or in a regeneration is
\* reported with the label of the segment whose synthesis failed ("Intro",
\* "Outro" or "Line <i>").
C11_ErrorCarriesLabel ==
    ev.err = "SynthesisError" =>
        ReportedLabel(ev.site) = ev.calls[Len(ev.calls)]

----------------------------------------------------------------------------
(* Properties of the voice directory.                                      *)

\* C12: "Submit API Key" with a request that does not succeed leaves
\* available_voices empty, whatever it held and whatever the answer lists;
\* with a request that succeeds, available_voices has exactly the names of
\* the answer, each mapped to the last voice of that name.
C12_VoiceDirectory ==
    [][\A r \in DirectoryU.responses :
          SubmitApiKey(r) =>
             IF r.status # 200
             THEN DOMAIN available_voices' = {}
             ELSE /\ DOMAIN available_voices' =
                        {r.voices[i].name : i \in 1..Len(r.voices)}
                  /\ \A i \in 1..Len(r.voices) :
                        (\A j \in (i+1)..Len(r.voices) :
                            r.voices[j].name # r.voices[i].name)
                        => available_voices'[r.voices[i].name] = r.voices[i].voice_id
      ]_vars

\* The directory listed Rachel twice and the session holds her second voice.
C12_Witness ==
    /\ ev.op = "submit"
    /\ ev.err = ""
    /\ DOMAIN available_voices = {"Rachel", "Adam"}
    /\ available_voices["Rachel"] = "r2"

----------------------------------------------------------------------------
(* Properties of the segment list over a session.                          *)

\* The labels of a segment list, as a set and in order.
Labels(segs) == {segs[j][1] : j \in 1..Len(segs)}
LabelSeq(segs) == [j \in 1..Len(segs) |-> segs[j][1]]

\* The labels a pass completed: all it called generate_audio for, but the
\* last one when that call raised.
Completed(e) ==
    IF e.err = "SynthesisError" THEN SubSeq(e.calls, 1, Len(e.calls) - 1)
    ELSE e.calls

\* C13 as stated: a label that is in the segment list is in it after every
\* later run, "Generate All Audio" included.
C13_NoDeletion ==
    [][Labels(audio_segments) \subseteq Labels(audio_segments')]_vars

\* C13, amended: every run but "Generate All Audio" (regeneration, script
\* load and edit, configuration, finalize, navigation) keeps the labels of
\* the list, in order; a "Generate All Audio" pass replaces the list and
\* leaves exactly the labels whose synthesis it completed.
C13_NoDeletionOutsidePass ==
    [][/\ ev'.op # "generate" =>
             LabelSeq(audio_segments') = LabelSeq(audio_segments)
       /\ ev'.op = "generate" =>
             LabelSeq(audio_segments') = Completed(ev')
      ]_vars

\* An empty script was loaded and the segments of the earlier script are
\* still in the list.
C13_Witness ==
    /\ ev.op \in {"load", "import"}
    /\ ev.err = ""
    /\ script = <<>>
    /\ Len(audio_segments) >= 2
    /\ "Line 2" \in Labels(audio_segments)

----------------------------------------------------------------------------
(* Properties of the podcast file.                                         *)

\* C14: only "Finalize Podcast" writes the podcast file; a finalization
\* whose export works leaves the segment list and the script as they are
\* and writes the file anew: the intro music if there is one, then every
\* segment of the current list in order, each followed by the pause,
\* whatever the file held before.
C14_ArtifactFrame ==
    [][/\ ev'.op # "finalize" => podcast_file' = podcast_file
       /\ (ev'.op = "finalize" /\ ev'.text = "ok") =>
             LET m == IF config.intro_music.present THEN 1 ELSE 0
                 clips == podcast_file'.clips IN
             /\ audio_segments' = audio_segments
             /\ script' = script
             /\ ev'.err = ""
             /\ podcast_file'.exists
             /\ Len(clips) = m + 2 * Len(audio_segments)
             /\ m = 1 => /\ clips[1].voice_id = "music"
                         /\ clips[1].dur = config.intro_music.dur
             /\ \A j \in 1..Len(audio_segments) :
                   /\ clips[m + 2 * j - 1] = audio_segments[j][2]
                   /\ clips[m + 2 * j] = Silent
      ]_vars

\* C15: every segment labelled "Line k" names a line of the current script
\* (1 <= k <= Len(script)), so the display loop and the regeneration of
\* step 5 never index the script out of range.
C15_NoStaleLine ==
    /\ \A j \in 1..Len(audio_segments) : ~Stale(audio_segments[j], script)
    /\ ev.err # "IndexError"

\* C16: in every state the segment list is an optional "Intro", then
\* "Line 1" .. "Line m" for some m >= 0, then an optional "Outro": the
\* labels are distinct, the lines consecutive from 1, an Intro only first
\* and an Outro only last.
C16_SegmentListShape ==
    LET n == Len(audio_segments)
        a == IF n >= 1 /\ audio_segments[1][1] = "Intro" THEN 1 ELSE 0
        b == IF n > a /\ audio_segments[n][1] = "Outro" THEN 1 ELSE 0
        m == n - a - b IN
    /\ \A j \in 1..m : audio_segments[a + j][1] = LineLabels[j]
    /\ \A i, j \in 1..n :
          audio_segments[i][1] = audio_segments[j][1] => i = j

\* The list holds the Intro and two lines and no Outro although an outro
\* text is set (the pass was aborted at the Outro, or the text was written
\* after it), and "Line 2" has since been regenerated.
C16_Witness ==
    /\ ev.op = "regenerate"
    /\ ev.err = ""
    /\ ev.k = 3
    /\ LabelSeq(audio_segments) = <<"Intro", "Line 1", "Line 2">>
    /\ Truthy(config.outro_text)

====
